---- MODULE Spec2Model ----
(***************************************************************************)
(* Media-track constraints (constraints/track.rs): the boolean-or-         *)
(* constraints selector, the generic track constraints container, its      *)
(* raw -> resolved -> sanitized pipeline, the required/basic partition and *)
(* the serde shape given by the derive attributes.                         *)
(*                                                                         *)
(* Values are modelled as follows.                                         *)
(*   leaf constraint  : [form |-> "bare", value |-> v]  (raw stage only)   *)
(*                      [form |-> "structured", exact |-> o, ideal |-> o]  *)
(*                      with o a value or "none"                           *)
(*   constraint set   : a function from a set of property names to leaves  *)
(*                      (keys unique, equality ignores order)              *)
(*   advanced         : a sequence of constraint sets                      *)
(*   track constraints: [mandatory |-> set, advanced |-> sequence]         *)
(*   selector         : [t |-> "Bool", flag |-> b]                         *)
(*                      [t |-> "Constraints", constraints |-> c]           *)
(*   Option           : [t |-> "None"], [t |-> "Some", v |-> x]            *)
(*   Result           : [t |-> "Err"],  [t |-> "Ok", v |-> x]              *)
(*   JSON value       : [t |-> "bool", b], [t |-> "scalar", s],            *)
(*                      [t |-> "object", m], [t |-> "array", a]            *)
(***************************************************************************)
EXTENDS Integers, Sequences, FiniteSets, TLC

VARIABLES subject, pc, unwrapped, resolved, sanitized, supported,
          requiredSet, basicSet, json, decoded

vars == <<subject, pc, unwrapped, resolved, sanitized, supported,
          requiredSet, basicSet, json, decoded>>

(* ----------------------------- bounds --------------------------------- *)

\* Longest advanced sequence a caller builds.
MaxAdvanced == 2

(* ------------------------- value universe ----------------------------- *)

\* Property names a caller can use.  MediaTrackProperty is an arbitrary
\* string, so the name of the struct's own field is one of them.
Props == {"deviceId", "advanced"}

Values == {"v"}

NoValue == "none"

BareLeaves == [form : {"bare"}, value : Values]

\* Structured constraints a caller writes: an ideal demand or the empty
\* constraint; exact demands are written as bare scalars.
StructuredLeaves ==
    [form : {"structured"}, exact : {NoValue}, ideal : Values \cup {NoValue}]

RawLeaves == BareLeaves \cup StructuredLeaves

ConstraintSets(L) == UNION {[D -> L] : D \in SUBSET Props}

AdvancedSeqs(L) == UNION {[1..n -> ConstraintSets(L)] : n \in 0..MaxAdvanced}

EmptySet == [k \in {} |-> [form |-> "structured", exact |-> NoValue, ideal |-> NoValue]]

None == [t |-> "None"]
Some(x) == [t |-> "Some", v |-> x]
Err == [t |-> "Err"]
Ok(x) == [t |-> "Ok", v |-> x]
Unset == [t |-> "Unset"]

Bool(flag) == [t |-> "Bool", flag |-> flag]
Constraints(c) == [t |-> "Constraints", constraints |-> c]

\* GenericMediaTrackConstraints::new
new(mandatory, advanced) == [mandatory |-> mandatory, advanced |-> advanced]

\* impl Default for GenericMediaTrackConstraints
Default == [mandatory |-> EmptySet, advanced |-> <<>>]

RawTrackConstraints ==
    [mandatory : ConstraintSets(RawLeaves), advanced : AdvancedSeqs(RawLeaves)]

RawSubjects ==
    {Bool(b) : b \in BOOLEAN} \cup {Constraints(c) : c \in RawTrackConstraints}

(* ------------------------ selector unwrapping ------------------------- *)

into_constraints_true_is_none(self) ==
    IF self.t = "Bool" THEN None ELSE Some(self.constraints)

\* GenericBoolOrMediaTrackConstraints::into_constraints
into_constraints(self) ==
    IF self.t = "Bool"
    THEN IF self.flag THEN Some(Default) ELSE None
    ELSE Some(self.constraints)

(* --------------------------- resolution ------------------------------- *)

\* Leaf resolution: a bare scalar becomes an exact-match constraint, a
\* structured constraint is kept.
leaf_into_resolved(c) ==
    IF c.form = "bare"
    THEN [form |-> "structured", exact |-> c.value, ideal |-> NoValue]
    ELSE c

set_into_resolved(s) == [k \in DOMAIN s |-> leaf_into_resolved(s[k])]

mandatory_into_resolved(m) == set_into_resolved(m)

advanced_into_resolved(a) == [i \in 1..Len(a) |-> set_into_resolved(a[i])]

into_resolved_drops_advanced(self) ==
    [mandatory |-> mandatory_into_resolved(self.mandatory), advanced |-> <<>>]

into_resolved_keeps_mandatory(self) ==
    [mandatory |-> self.mandatory, advanced |-> advanced_into_resolved(self.advanced)]

into_resolved_reverses_advanced(self) ==
    [mandatory |-> mandatory_into_resolved(self.mandatory),
     advanced  |-> [i \in 1..Len(self.advanced) |->
                       set_into_resolved(self.advanced[Len(self.advanced) + 1 - i])]]

\* MediaTrackConstraints::into_resolved
into_resolved(self) ==
    [mandatory |-> mandatory_into_resolved(self.mandatory),
     advanced  |-> advanced_into_resolved(self.advanced)]

BoolOr_into_resolved_clears_flag(self) ==
    IF self.t = "Bool"
    THEN Bool(FALSE)
    ELSE Constraints(into_resolved(self.constraints))

\* BoolOrMediaTrackConstraints::into_resolved
BoolOr_into_resolved(self) ==
    IF self.t = "Bool"
    THEN Bool(self.flag)
    ELSE Constraints(into_resolved(self.constraints))

(* -------------------------- sanitization ------------------------------ *)

\* A structured constraint that demands nothing.
is_empty(constraint) == constraint.exact = NoValue /\ constraint.ideal = NoValue

\* Leaf sanitization: an empty constraint has no sanitized form.
leaf_into_sanitized(constraint) ==
    IF is_empty(constraint) THEN None ELSE Some(constraint)

\* Constraint-set sanitization: a property is kept when the platform
\* supports it and its constraint has a sanitized form.
set_into_sanitized(s, supported_constraints) ==
    [k \in {p \in DOMAIN s : /\ p \in supported_constraints
                             /\ leaf_into_sanitized(s[p]).t = "Some"}
        |-> leaf_into_sanitized(s[k]).v]

mandatory_into_sanitized(m, supported_constraints) ==
    set_into_sanitized(m, supported_constraints)

advanced_into_sanitized(a, supported_constraints) ==
    SelectSeq([i \in 1..Len(a) |-> set_into_sanitized(a[i], supported_constraints)],
              LAMBDA s : DOMAIN s # {})

into_sanitized_keeps_mandatory(self, supported_constraints) ==
    [mandatory |-> self.mandatory,
     advanced  |-> advanced_into_sanitized(self.advanced, supported_constraints)]

into_sanitized_keeps_advanced(self, supported_constraints) ==
    [mandatory |-> mandatory_into_sanitized(self.mandatory, supported_constraints),
     advanced  |-> [i \in 1..Len(self.advanced) |->
                       set_into_sanitized(self.advanced[i], supported_constraints)]]

\* ResolvedMediaTrackConstraints::into_sanitized
into_sanitized(self, supported_constraints) ==
    [mandatory |-> mandatory_into_sanitized(self.mandatory, supported_constraints),
     advanced  |-> advanced_into_sanitized(self.advanced, supported_constraints)]

(* ----------------------- required/basic partition --------------------- *)

\* The leaf predicate: an exact-match demand is required.
is_required(constraint) == constraint.exact # NoValue

basic_or_required_ignores_flag(self, required) ==
    [k \in {p \in DOMAIN self.mandatory : is_required(self.mandatory[p])}
        |-> self.mandatory[k]]

\* GenericMediaTrackConstraints::basic_or_required
basic_or_required(self, required) ==
    [k \in {p \in DOMAIN self.mandatory : is_required(self.mandatory[p]) = required}
        |-> self.mandatory[k]]

\* GenericMediaTrackConstraints::basic
basic(self) == basic_or_required(self, FALSE)

\* GenericMediaTrackConstraints::required
required(self) == basic_or_required(self, TRUE)

(* ------------------------------ serde --------------------------------- *)

JBool(b) == [t |-> "bool", b |-> b]
JScalar(s) == [t |-> "scalar", s |-> s]
JObject(m) == [t |-> "object", m |-> m]
JArray(a) == [t |-> "array", a |-> a]

NoEntries == [k \in {} |-> JBool(FALSE)]

LeafFields == {"exact", "ideal"}

\* Leaf encoding: a bare scalar is a scalar, a structured constraint is an
\* object holding the fields that are set.
SerializeLeaf(c) ==
    IF c.form = "bare"
    THEN JScalar(c.value)
    ELSE JObject([f \in {g \in LeafFields : c[g] # NoValue} |-> JScalar(c[f])])

DeserializeLeaf(j) ==
    CASE j.t = "scalar" -> Ok([form |-> "bare", value |-> j.s])
      [] j.t = "object" ->
            IF /\ DOMAIN j.m \subseteq LeafFields
               /\ \A f \in DOMAIN j.m : j.m[f].t = "scalar"
            THEN Ok([form  |-> "structured",
                     exact |-> IF "exact" \in DOMAIN j.m THEN j.m["exact"].s ELSE NoValue,
                     ideal |-> IF "ideal" \in DOMAIN j.m THEN j.m["ideal"].s ELSE NoValue])
            ELSE Err
      [] OTHER -> Err

SerializeSet(s) == JObject([k \in DOMAIN s |-> SerializeLeaf(s[k])])

\* Decodes the entries of an object as a constraint set.
DeserializeEntries(m) ==
    IF \A k \in DOMAIN m : DeserializeLeaf(m[k]).t = "Ok"
    THEN Ok([k \in DOMAIN m |-> DeserializeLeaf(m[k]).v])
    ELSE Err

DeserializeSet(j) == IF j.t = "object" THEN DeserializeEntries(j.m) ELSE Err

SerializeAdvanced(a) == JArray([i \in 1..Len(a) |-> SerializeSet(a[i])])

DeserializeAdvanced(j) ==
    IF /\ j.t = "array"
       /\ \A i \in 1..Len(j.a) : DeserializeSet(j.a[i]).t = "Ok"
    THEN Ok([i \in 1..Len(j.a) |-> DeserializeSet(j.a[i]).v])
    ELSE Err

should_skip_advanced_never(advanced) == FALSE

\* should_skip_advanced
should_skip_advanced(advanced) == Len(advanced) = 0

\* derive(Serialize) on GenericMediaTrackConstraints: one map, the entries
\* of the flattened `mandatory` field first, then the struct's own
\* `advanced` entry unless skipped; a key written twice keeps the later
\* value.
Serialize(self) ==
    LET flat == SerializeSet(self.mandatory).m
        own  == IF should_skip_advanced(self.advanced)
                THEN NoEntries
                ELSE [k \in {"advanced"} |-> SerializeAdvanced(self.advanced)]
    IN  JObject([k \in DOMAIN flat \cup DOMAIN own |->
                    IF k \in DOMAIN own THEN own[k] ELSE flat[k]])

\* derive(Deserialize) on GenericMediaTrackConstraints: the key "advanced"
\* is the struct's own field (default when missing), every other key is
\* collected for the flattened `mandatory` field.
Deserialize(j) ==
    IF j.t # "object" THEN Err
    ELSE LET rest      == [k \in DOMAIN j.m \ {"advanced"} |-> j.m[k]]
             mandatory == DeserializeEntries(rest)
             advanced  == IF "advanced" \in DOMAIN j.m
                          THEN DeserializeAdvanced(j.m["advanced"])
                          ELSE Ok(Default.advanced)
         IN  IF mandatory.t = "Ok" /\ advanced.t = "Ok"
             THEN Ok(new(mandatory.v, advanced.v))
             ELSE Err

BoolOr_Serialize_tagged(self) ==
    IF self.t = "Bool"
    THEN JObject([k \in {"Bool"} |-> JBool(self.flag)])
    ELSE JObject([k \in {"Constraints"} |-> Serialize(self.constraints)])

\* derive(Serialize), serde(untagged) on GenericBoolOrMediaTrackConstraints
BoolOr_Serialize(self) ==
    IF self.t = "Bool" THEN JBool(self.flag) ELSE Serialize(self.constraints)

\* derive(Deserialize), serde(untagged): the variants are tried in
\* declaration order and the first that decodes wins.
BoolOr_Deserialize(j) ==
    IF j.t = "bool" THEN Ok(Bool(j.b))
    ELSE IF Deserialize(j).t = "Ok" THEN Ok(Constraints(Deserialize(j).v))
    ELSE Err

(* ---------------------------- operations ------------------------------ *)

Init ==
    /\ subject \in RawSubjects
    /\ pc = "start"
    /\ unwrapped = Unset
    /\ resolved = Unset
    /\ sanitized = Unset
    /\ supported = {}
    /\ requiredSet = Unset
    /\ basicSet = Unset
    /\ json = Unset
    /\ decoded = Unset

\* A caller unwraps the raw selector.
IntoConstraints ==
    /\ pc = "start"
    /\ unwrapped' = into_constraints(subject)
    /\ pc' = "unwrapped"
    /\ UNCHANGED <<subject, resolved, sanitized, supported, requiredSet, basicSet,
                   json, decoded>>

\* The raw track constraints obtained from the selector are encoded.
SerializeConstraints ==
    /\ pc = "unwrapped"
    /\ unwrapped.t = "Some"
    /\ json' = Serialize(unwrapped.v)
    /\ pc' = "serialized"
    /\ UNCHANGED <<subject, unwrapped, resolved, sanitized, supported, requiredSet,
                   basicSet, decoded>>

DeserializeConstraints ==
    /\ pc = "serialized"
    /\ decoded' = Deserialize(json)
    /\ pc' = "deserialized"
    /\ UNCHANGED <<subject, unwrapped, resolved, sanitized, supported, requiredSet,
                   basicSet, json>>

\* The raw selector itself is encoded.
SerializeBoolOr ==
    /\ pc = "start"
    /\ json' = BoolOr_Serialize(subject)
    /\ pc' = "bool_or_serialized"
    /\ UNCHANGED <<subject, unwrapped, resolved, sanitized, supported, requiredSet,
                   basicSet, decoded>>

DeserializeBoolOr ==
    /\ pc = "bool_or_serialized"
    /\ decoded' = BoolOr_Deserialize(json)
    /\ pc' = "bool_or_deserialized"
    /\ UNCHANGED <<subject, unwrapped, resolved, sanitized, supported, requiredSet,
                   basicSet, json>>

\* The raw selector is resolved.
IntoResolved ==
    /\ pc = "start"
    /\ resolved' = BoolOr_into_resolved(subject)
    /\ pc' = "resolved"
    /\ UNCHANGED <<subject, unwrapped, sanitized, supported, requiredSet, basicSet,
                   json, decoded>>

\* The resolved selector is unwrapped.
ResolvedIntoConstraints ==
    /\ pc = "resolved"
    /\ unwrapped' = into_constraints(resolved)
    /\ pc' = "resolved_unwrapped"
    /\ UNCHANGED <<subject, resolved, sanitized, supported, requiredSet, basicSet,
                   json, decoded>>

\* The resolved track constraints are sanitized against a platform's
\* supported properties.
IntoSanitized ==
    /\ pc = "resolved_unwrapped"
    /\ unwrapped.t = "Some"
    /\ \E supported_constraints \in SUBSET Props :
          /\ supported' = supported_constraints
          /\ sanitized' = into_sanitized(unwrapped.v, supported_constraints)
    /\ pc' = "sanitized"
    /\ UNCHANGED <<subject, unwrapped, resolved, requiredSet, basicSet, json, decoded>>

\* The required subset of the resolved track constraints is taken.
Required ==
    /\ pc \in {"resolved_unwrapped", "partitioning"}
    /\ unwrapped.t = "Some"
    /\ requiredSet = Unset
    /\ requiredSet' = Some(required(unwrapped.v))
    /\ pc' = "partitioning"
    /\ UNCHANGED <<subject, unwrapped, resolved, sanitized, supported, basicSet,
                   json, decoded>>

\* The basic subset of the resolved track constraints is taken.
Basic ==
    /\ pc \in {"resolved_unwrapped", "partitioning"}
    /\ unwrapped.t = "Some"
    /\ basicSet = Unset
    /\ basicSet' = Some(basic(unwrapped.v))
    /\ pc' = "partitioning"
    /\ UNCHANGED <<subject, unwrapped, resolved, sanitized, supported, requiredSet,
                   json, decoded>>

Next ==
    \/ IntoConstraints
    \/ SerializeConstraints
    \/ DeserializeConstraints
    \/ SerializeBoolOr
    \/ DeserializeBoolOr
    \/ IntoResolved
    \/ ResolvedIntoConstraints
    \/ IntoSanitized
    \/ Required
    \/ Basic

Spec == Init /\ [][Next]_vars

(* --------------------------- helper predicates ------------------------ *)

Keys(s) == DOMAIN s

NoBareLeaf(s) == \A k \in Keys(s) : s[k].form = "structured"

AllStructured(c) ==
    /\ NoBareLeaf(c.mandatory)
    /\ \A i \in 1..Len(c.advanced) : NoBareLeaf(c.advanced[i])

HasBareLeaf(c) ==
    /\ ~NoBareLeaf(c.mandatory)
    /\ \E i \in 1..Len(c.advanced) : ~NoBareLeaf(c.advanced[i])

StrictlyIncreasing(f) ==
    \A i \in DOMAIN f : \A j \in DOMAIN f : i < j => f[i] < f[j]

\* `out` is `in` restricted to some of its supported keys, constraints unchanged.
FilteredFrom(out, in, S) ==
    /\ Keys(out) \subseteq Keys(in) \cap S
    /\ \A k \in Keys(out) : out[k] = in[k]

(* ------------------------------ C1 ------------------------------------ *)

\* C1: into_constraints is None for Bool(false), Some(default) (empty
\* mandatory set, empty advanced sequence) for Bool(true) and Some(c) with c
\* unchanged for Constraints(c); it always yields an Option.
C1_IntoConstraints ==
    pc = "unwrapped" =>
        /\ unwrapped.t \in {"None", "Some"}
        /\ (subject.t = "Bool" /\ ~subject.flag) => unwrapped = None
        /\ (subject.t = "Bool" /\ subject.flag) =>
              /\ unwrapped.t = "Some"
              /\ Keys(unwrapped.v.mandatory) = {}
              /\ Len(unwrapped.v.advanced) = 0
        /\ subject.t = "Constraints" => unwrapped = Some(subject.constraints)

C1_Witness ==
    /\ pc = "unwrapped"
    /\ subject.t = "Bool"
    /\ subject.flag
    /\ unwrapped.t = "Some"

(* ------------------------------ C2 ------------------------------------ *)

\* C2: required() and basic() of a resolved value are disjoint by key, their
\* key-wise union is the mandatory set, each mandatory property appears in
\* exactly one of them with its constraint unchanged (in required() iff
\* is_required), whatever the advanced sequence holds.
C2_Partition ==
    (pc = "partitioning" /\ requiredSet.t = "Some" /\ basicSet.t = "Some") =>
        LET m == unwrapped.v.mandatory
            r == requiredSet.v
            b == basicSet.v
        IN  /\ Keys(r) \cap Keys(b) = {}
            /\ Keys(r) \cup Keys(b) = Keys(m)
            /\ \A k \in Keys(r) : r[k] = m[k] /\ is_required(m[k])
            /\ \A k \in Keys(b) : b[k] = m[k] /\ ~is_required(m[k])

C2_Witness ==
    /\ pc = "partitioning"
    /\ requiredSet.t = "Some"
    /\ basicSet.t = "Some"
    /\ Keys(requiredSet.v) # {}
    /\ Keys(basicSet.v) # {}
    /\ Len(unwrapped.v.advanced) > 0
    /\ Keys(unwrapped.v.advanced[1]) # {}

(* ------------------------------ C3 ------------------------------------ *)

\* C3: every key of the sanitized mandatory set was a key of the resolved
\* mandatory set and is a member of the supported constraints.
C3_SanitizeIsFilter ==
    pc = "sanitized" =>
        /\ Keys(sanitized.mandatory) \subseteq Keys(unwrapped.v.mandatory)
        /\ Keys(sanitized.mandatory) \subseteq supported

C3_Witness ==
    /\ pc = "sanitized"
    /\ Keys(sanitized.mandatory) # {}
    /\ Keys(sanitized.mandatory) # Keys(unwrapped.v.mandatory)
    /\ \E k \in Keys(unwrapped.v.mandatory) : k \notin supported

(* ------------------------------ C4 ------------------------------------ *)

\* C4: an advanced set whose properties are all unsupported is removed from
\* the advanced sequence, no sanitized advanced entry is empty, the surviving
\* entries keep their relative order, and a mandatory set emptied the same
\* way is still present as the empty set.
C4_SanitizeAsymmetry ==
    pc = "sanitized" =>
        LET in  == unwrapped.v.advanced
            out == sanitized.advanced
        IN  /\ \A i \in 1..Len(out) : Keys(out[i]) # {}
            /\ \E f \in [1..Len(out) -> 1..Len(in)] :
                  /\ StrictlyIncreasing(f)
                  /\ \A i \in 1..Len(out) : FilteredFrom(out[i], in[f[i]], supported)
                  /\ \A j \in 1..Len(in) :
                        Keys(in[j]) \cap supported = {} => \A i \in 1..Len(out) : f[i] # j
            /\ Keys(unwrapped.v.mandatory) \cap supported = {} =>
                  sanitized.mandatory = EmptySet

C4_Witness ==
    /\ pc = "sanitized"
    /\ Len(unwrapped.v.advanced) = 2
    /\ Keys(unwrapped.v.advanced[1]) # {}
    /\ Keys(unwrapped.v.advanced[1]) \cap supported = {}
    /\ Len(sanitized.advanced) = 1
    /\ Keys(unwrapped.v.mandatory) # {}
    /\ Keys(unwrapped.v.mandatory) \cap supported = {}
    /\ sanitized.mandatory = EmptySet

(* ------------------------------ C5 ------------------------------------ *)

\* C5: into_resolved keeps the structure: same mandatory keys, same advanced
\* length, and the i-th resolved advanced set has the keys of the i-th raw one.
C5_ResolveKeepsStructure ==
    (pc = "resolved" /\ subject.t = "Constraints") =>
        /\ resolved.t = "Constraints"
        /\ Keys(resolved.constraints.mandatory) = Keys(subject.constraints.mandatory)
        /\ Len(resolved.constraints.advanced) = Len(subject.constraints.advanced)
        /\ \A i \in 1..Len(subject.constraints.advanced) :
              Keys(resolved.constraints.advanced[i]) = Keys(subject.constraints.advanced[i])

C5_Witness ==
    /\ pc = "resolved"
    /\ subject.t = "Constraints"
    /\ Keys(subject.constraints.mandatory) # {}
    /\ Len(subject.constraints.advanced) = 2
    /\ Keys(subject.constraints.advanced[1]) # Keys(subject.constraints.advanced[2])

(* ------------------------------ C6 ------------------------------------ *)

\* C6: into_resolved always yields a selector of the same variant and its
\* result holds no bare scalar leaf, in the mandatory set or any advanced set.
C6_ResolveTotal ==
    pc = "resolved" =>
        /\ resolved.t = subject.t
        /\ resolved.t \in {"Bool", "Constraints"}
        /\ resolved.t = "Constraints" => AllStructured(resolved.constraints)

C6_Witness ==
    /\ pc = "resolved"
    /\ subject.t = "Constraints"
    /\ HasBareLeaf(subject.constraints)

(* ------------------------------ C7 ------------------------------------ *)

\* C7: resolving a raw value whose leaves are all structured yields a value
\* equal to the input.
C7_ResolveIdempotent ==
    (pc = "resolved" /\ subject.t = "Constraints" /\ AllStructured(subject.constraints)) =>
        resolved = Constraints(subject.constraints)

C7_Witness ==
    /\ pc = "resolved"
    /\ subject.t = "Constraints"
    /\ AllStructured(subject.constraints)
    /\ Keys(subject.constraints.mandatory) # {}
    /\ Len(subject.constraints.advanced) > 0
    /\ Keys(subject.constraints.advanced[1]) # {}

(* ------------------------------ C8 ------------------------------------ *)

\* The serialized form is one flat object whose keys are the mandatory keys
\* plus "advanced", present exactly when the advanced sequence is non-empty.
FlatShape(j, c) ==
    /\ j.t = "object"
    /\ Keys(j.m) = Keys(c.mandatory) \cup (IF Len(c.advanced) > 0 THEN {"advanced"} ELSE {})
    /\ "advanced" \in Keys(j.m) <=> Len(c.advanced) > 0

\* C8 as stated: for every value the serialized form has the flat shape and
\* deserializing it gives back the original.
C8_SerdeSymmetryAnyKeys ==
    pc = "deserialized" =>
        /\ FlatShape(json, unwrapped.v)
        /\ decoded = Ok(unwrapped.v)

\* C8, amended: the same for every value whose mandatory set does not use the
\* reserved key "advanced" as a property name.
C8_SerdeSymmetry ==
    (pc = "deserialized" /\ "advanced" \notin Keys(unwrapped.v.mandatory)) =>
        /\ FlatShape(json, unwrapped.v)
        /\ decoded = Ok(unwrapped.v)

C8_Witness ==
    /\ pc = "deserialized"
    /\ "advanced" \notin Keys(unwrapped.v.mandatory)
    /\ Keys(unwrapped.v.mandatory) # {}
    /\ Len(unwrapped.v.advanced) = 2
    /\ decoded.t = "Ok"

(* ------------------------------ C9 ------------------------------------ *)

\* Bool(b) encodes as the bare boolean, Constraints(c) as the object of c, and
\* the encoding of one variant is never an encoding of the other.
UntaggedShape(j, x) ==
    /\ x.t = "Bool" =>
          /\ j = JBool(x.flag)
          /\ \A c \in RawTrackConstraints : j # Serialize(c)
    /\ x.t = "Constraints" =>
          /\ j.t = "object"
          /\ j = Serialize(x.constraints)
          /\ \A b \in BOOLEAN : j # JBool(b)
    /\ x = Constraints(Default) => j = JObject(NoEntries)

\* C9 as stated: the untagged shape holds and deserializing the serialized
\* form of any selector yields that selector.
C9_UntaggedRoundTripAnyKeys ==
    pc = "bool_or_deserialized" =>
        /\ UntaggedShape(json, subject)
        /\ decoded = Ok(subject)

\* C9, amended: the same for every selector that is a Bool or whose
\* constraints do not use the reserved key "advanced" as a mandatory property.
C9_UntaggedRoundTrip ==
    (/\ pc = "bool_or_deserialized"
     /\ subject.t = "Constraints" => "advanced" \notin Keys(subject.constraints.mandatory)) =>
        /\ UntaggedShape(json, subject)
        /\ decoded = Ok(subject)

C9_Witness ==
    /\ pc = "bool_or_deserialized"
    /\ subject = Constraints(Default)
    /\ json = JObject(NoEntries)
    /\ decoded = Ok(subject)

(* ------------------------------ C10 ----------------------------------- *)

\* C10: unwrapping the resolved selector equals resolving the unwrapped raw
\* selector: None for Bool(false), Some(default) for Bool(true), and
\* Some(resolved c) for Constraints(c).
C10_ResolveCommutesWithUnwrap ==
    pc = "resolved_unwrapped" =>
        /\ (subject.t = "Bool" /\ ~subject.flag) => unwrapped = None
        /\ (subject.t = "Bool" /\ subject.flag) =>
              /\ unwrapped = Some(Default)
              /\ unwrapped = Some(into_resolved(into_constraints(subject).v))
        /\ subject.t = "Constraints" =>
              unwrapped = Some(into_resolved(into_constraints(subject).v))

C10_Witness ==
    /\ pc = "resolved_unwrapped"
    /\ subject.t = "Constraints"
    /\ HasBareLeaf(subject.constraints)
    /\ unwrapped.t = "Some"
    /\ AllStructured(unwrapped.v)

====
